---------------------------- MODULE Spec2Model ----------------------------
(***************************************************************************)
(* Graph layers of layers.py: AdjConstructor (learned, top-k sparsified    *)
(* adjacency), InformationPropagtionLayer (one diffusion hop) and          *)
(* GraphConvolutionModule (k hops plus per-hop projections).               *)
(*                                                                         *)
(* Numbers.  AdjConstructor scores are fixed-point thousandths (tanh is a  *)
(* table rounded to three decimals, saturating at 1000).  The propagation  *)
(* layers use exact rationals <<num, den>>; floating-point rounding is not *)
(* modelled.                                                               *)
(***************************************************************************)
EXTENDS Integers, Sequences, FiniteSets, TLC

VARIABLES
    \* ---- AdjConstructor ----
    emb1,       \* tanh(alpha * theta1(emb1(idx))), line 130: node -> vector
    emb2,       \* tanh(alpha * theta2(emb2(idx))), line 131
    top_k,      \* self.top_k
    training,   \* nn.Module.training
    adj_pc,     \* "idle" | "done" | "error" : outcome of the last forward
    adj_mat,    \* line 133: the score matrix before masking
    adj_out     \* line 142: the returned adjacency

VARIABLES
    \* ---- inputs of the propagation layers ----
    k,          \* GraphConvolutionModule.k (gcl1..gclk, info_select0..k exist)
    conv,       \* weights and biases of info_select0..k
    A,          \* the adjacency tensor handed in: [rank, m]
    x,          \* the feature tensor: channel -> node -> value
    h_in,       \* InformationPropagtionLayer.forward's h_in (direct call)
    beta,       \* the blend coefficient handed in
    \* ---- one GraphConvolutionModule.forward call ----
    gcm_pc,     \* "idle" | "done" | "error"
    gcm_err,    \* "none" or the exception raised
    hiddens,    \* the list hiddens; hiddens[i + 1] here is hiddens[i] of the code
    trans,      \* the values A_tilde took (line 207, then line 214 per hop)
    used,       \* per hop, the matrix A_i the layer multiplied with its x
    hop_beta,   \* per hop, the beta the layer blended with
    hop_hin,    \* per hop, the h_in the layer blended in
    denoms,     \* every value 1 + degree that was inverted during the call
    out,        \* the returned tensor
    \* ---- one InformationPropagtionLayer.forward call ----
    ipl_pc,     \* "idle" | "done" | "error"
    ipl_out     \* the returned tensor

adjVars == <<emb1, emb2, top_k, training, adj_pc, adj_mat, adj_out>>

inVars == <<k, conv, A, x, h_in, beta>>

gcmVars == <<gcm_pc, gcm_err, hiddens, trans, used, hop_beta, hop_hin, denoms, out>>

iplVars == <<ipl_pc, ipl_out>>

vars == <<adjVars, inVars, gcmVars, iplVars>>

\* f itself, evaluated once over its whole domain (TLC otherwise evaluates the
\* body of a function constructor again at every application)
Eval(f) == f @@ <<>>

----------------------------------------------------------------------------
(* Bounds and input sets *)

n_nodes == 3

Nodes == 1..n_nodes

\* embedding_dim = 1 : one coordinate per embedding vector
Dims == {1}

\* Values of the activated embeddings (tanh output: 0, and saturated +-1)
EmbVals == {-1, 0, 1}

\* rand_like(adj_mat) * 0.01 lies in [0, 0.01): the two extremes, in thousandths
JitterVals == {0, 9}

----------------------------------------------------------------------------
(* AdjConstructor *)

alpha == 3

\* torch.tanh on an integer argument, in thousandths (odd, monotone, saturating)
tanh(v) ==
    LET a == IF v < 0 THEN -v ELSE v
        t == CASE a = 0 -> 0
               [] a = 1 -> 762
               [] a = 2 -> 964
               [] a = 3 -> 995
               [] a = 4 -> 999
               [] OTHER -> 1000
    IN  IF v < 0 THEN -t ELSE t

relu(v) == IF v > 0 THEN v ELSE 0

RECURSIVE SumOver(_, _)
SumOver(S, f) ==
    IF S = {} THEN 0
    ELSE LET e == CHOOSE e \in S : TRUE IN f[e] + SumOver(S \ {e}, f)

\* (P @ Q.T)[i][j] for embedding tables P, Q
MatMulT(P, Q) ==
    [i \in Nodes |-> [j \in Nodes |-> SumOver(Dims, [d \in Dims |-> P[i][d] * Q[j][d]])]]

ScoreNoTranspose(e1, e2) ==
    LET M == MatMulT(e1, e2)
    IN  [i \in Nodes |-> [j \in Nodes |-> relu(tanh(alpha * M[i][j]))]]

\* line 133: relu(tanh(alpha * (emb1 @ emb2.T - emb2 @ emb1.T)))
Score(e1, e2) ==
    LET M1 == MatMulT(e1, e2)
        M2 == MatMulT(e2, e1)
    IN  [i \in Nodes |-> [j \in Nodes |-> relu(tanh(alpha * (M1[i][j] - M2[i][j])))]]

TopKOffByOne(v, kk) ==
    {T \in SUBSET Nodes :
        /\ Cardinality(T) = IF kk < n_nodes THEN kk + 1 ELSE kk
        /\ \A j \in T, l \in Nodes \ T : v[j] >= v[l]}

\* Tensor.topk(kk, 1) on one row: the index sets topk may return (ties in any order)
TopK(v, kk) ==
    {T \in SUBSET Nodes :
        /\ Cardinality(T) = kk
        /\ \A j \in T, l \in Nodes \ T : v[j] >= v[l]}

\* lines 136-139: the index sets t1 can hold for row i
RowSelections(row, kk, train) ==
    IF train
    THEN UNION {TopK([j \in Nodes |-> row[j] + r[j]], kk) : r \in [Nodes -> JitterVals]}
    ELSE TopK(row, kk)

\* lines 134-135, 140-141 on one row: mask scattered from t1, then adj_mat * mask
MaskRow(row, T) == [j \in Nodes |-> IF j \in T THEN row[j] * 1 ELSE row[j] * 0]

RowOutputs(row, kk, train) == {MaskRow(row, T) : T \in RowSelections(row, kk, train)}

\* every value an entry of the score matrix can take, for embeddings over EmbVals
ScoreVals == {relu(tanh(alpha * d)) : d \in (-2 * Cardinality(Dims))..(2 * Cardinality(Dims))}

\* RowOutputs tabulated once over all rows, as a function record
RowOutputTable ==
    [a \in [Nodes -> ScoreVals] \X (0..n_nodes) \X BOOLEAN |-> RowOutputs(a[1], a[2], a[3])] @@ <<>>

RECURSIVE Rows(_, _)
\* all matrices whose row i is drawn from F[i], i in 1..n
Rows(n, F) ==
    IF n = 0 THEN {<<>>}
    ELSE {Append(m, r) : m \in Rows(n - 1, F), r \in F[n]}

\* AdjConstructor.forward(idx) with idx = arange(n_nodes)
AdjForward ==
    \E s \in {Score(emb1, emb2)} :
    /\ adj_mat' = s
    /\ IF top_k > n_nodes
       THEN \* topk raises: selected index k out of range
            /\ adj_pc' = "error"
            /\ adj_out' = <<>>
       ELSE /\ adj_pc' = "done"
            /\ adj_out' \in Rows(n_nodes, [i \in Nodes |-> RowOutputTable[<<s[i], top_k, training>>]])
    /\ UNCHANGED <<emb1, emb2, top_k, training>>
    /\ UNCHANGED <<inVars, gcmVars, iplVars>>

AdjIdle ==
    /\ emb1 = <<>> /\ emb2 = <<>> /\ top_k = 0 /\ training = FALSE
    /\ adj_pc = "idle" /\ adj_mat = <<>> /\ adj_out = <<>>

InIdle ==
    /\ k = 0 /\ conv = <<>> /\ A = <<>> /\ x = <<>> /\ h_in = <<>> /\ beta = <<>>

GcmIdle ==
    /\ gcm_pc = "idle" /\ gcm_err = "none" /\ hiddens = <<>> /\ trans = <<>>
    /\ used = <<>> /\ hop_beta = <<>> /\ hop_hin = <<>> /\ denoms = {} /\ out = <<>>

IplIdle ==
    /\ ipl_pc = "idle" /\ ipl_out = <<>>

AdjInit ==
    /\ emb1 \in [Nodes -> [Dims -> EmbVals]]
    /\ emb2 \in [Nodes -> [Dims -> EmbVals]]
    /\ top_k \in 1..(n_nodes + 1)
    /\ training \in BOOLEAN
    /\ adj_pc = "idle"
    /\ adj_mat = <<>>
    /\ adj_out = <<>>
    /\ InIdle /\ GcmIdle /\ IplIdle

AdjNext == AdjForward

SpecAdj == AdjInit /\ [][AdjNext]_vars

----------------------------------------------------------------------------
(* Exact rationals <<num, den>>, den > 0, in lowest terms.  <<1, 0>> stands *)
(* for a non-finite float (inf or nan), which only a division by zero makes *)

RECURSIVE Gcd(_, _)
Gcd(a, b) == IF b = 0 THEN a ELSE Gcd(b, a % b)

Abs(a) == IF a < 0 THEN -a ELSE a

NonFinite == <<1, 0>>

Zero == <<0, 1>>

One == <<1, 1>>

Rat(n, d) ==
    IF d = 0 THEN NonFinite
    ELSE LET g == Gcd(Abs(n), Abs(d))
             sg == IF d < 0 THEN -1 ELSE 1
         IN  <<sg * (n \div g), sg * (d \div g)>>


\* the cases on 0, 1 and integers give the same values as the general formula
RAdd(p, q) ==
    IF p[2] = 0 \/ q[2] = 0 THEN NonFinite
    ELSE IF p[1] = 0 THEN q
    ELSE IF q[1] = 0 THEN p
    ELSE IF p[2] = 1 /\ q[2] = 1 THEN <<p[1] + q[1], 1>>
    ELSE Rat(p[1] * q[2] + q[1] * p[2], p[2] * q[2])

RSub(p, q) ==
    IF p[2] = 0 \/ q[2] = 0 THEN NonFinite
    ELSE IF q[1] = 0 THEN p
    ELSE IF p[2] = 1 /\ q[2] = 1 THEN <<p[1] - q[1], 1>>
    ELSE Rat(p[1] * q[2] - q[1] * p[2], p[2] * q[2])

RMul(p, q) ==
    IF p[2] = 0 \/ q[2] = 0 THEN NonFinite
    ELSE IF p[1] = 0 \/ q[1] = 0 THEN Zero
    ELSE IF p[1] = 1 /\ p[2] = 1 THEN q
    ELSE IF q[1] = 1 /\ q[2] = 1 THEN p
    ELSE Rat(p[1] * q[1], p[2] * q[2])

RInv(p) == IF p[2] = 0 THEN NonFinite ELSE Rat(p[2], p[1])
RGeq(p, q) == p[2] # 0 /\ q[2] # 0 /\ p[1] * q[2] >= q[1] * p[2]

----------------------------------------------------------------------------
(* Bounds and input sets of the propagation layers *)

\* A.shape[1]: the number of nodes of the adjacency handed to the layers
N == 2

\* the largest hop count k a module is constructed with
MaxK == 2

GNodes == 1..N

\* the channel axis: one channel
Chans == {1}

\* entries of the raw adjacency off the diagonal (the diagonal of a constructed
\* adjacency is zero)
AVals == {Zero, One}

XVals == {Zero, One}

BetaVals == {Zero, <<1, 4>>, <<1, 2>>, One}

AMats == {M \in [GNodes -> [GNodes -> AVals]] : \A i \in GNodes : M[i][i] = Zero}

Tensors ==
    {[rank |-> 2, m |-> M] : M \in AMats}
    \cup {[rank |-> 3, m |-> [c \in Chans |-> M]] : M \in AMats}
    \cup {[rank |-> r, m |-> <<>>] : r \in {1, 4}}

Features == [Chans -> [GNodes -> XVals]]

\* two parameter settings of the 1x1 convolutions info_select0..kk
ConvParams(kk) ==
    {[w |-> [i \in 0..kk |-> One], b |-> [i \in 0..kk |-> Zero]],
     [w |-> [i \in 0..kk |-> <<i + 2, 1>>], b |-> [i \in 0..kk |-> One]]}

----------------------------------------------------------------------------
(* Tensor operations *)

RECURSIVE RSum(_, _)
\* f[1] + ... + f[n]
RSum(n, f) == IF n = 0 THEN Zero ELSE RAdd(RSum(n - 1, f), f[n])

MatMul(P, Q) ==
    Eval([i \in GNodes |->
            Eval([j \in GNodes |-> RSum(N, [m \in GNodes |-> RMul(P[i][m], Q[m][j])])])])

MatVec(P, v) == Eval([i \in GNodes |-> RSum(N, [m \in GNodes |-> RMul(P[i][m], v[m])])])

Transpose(M) == Eval([i \in GNodes |-> Eval([j \in GNodes |-> M[j][i]])])

Eye == Eval([i \in GNodes |-> Eval([j \in GNodes |-> IF i = j THEN One ELSE Zero])])

MatAdd(P, Q) == Eval([i \in GNodes |-> Eval([j \in GNodes |-> RAdd(P[i][j], Q[i][j])])])

\* torch.diag / torch.diag_embed of a vector
Diag(d) == Eval([i \in GNodes |-> Eval([j \in GNodes |-> IF i = j THEN d[i] ELSE Zero])])

\* 1 / d, entry by entry
Inverses(d) == Eval([i \in GNodes |-> RInv(d[i])])

Range(f) == {f[i] : i \in DOMAIN f}

\* the matrices of an adjacency tensor of rank 2 or 3
Slices(T) == IF T.rank = 3 THEN {T.m[c] : c \in DOMAIN T.m} ELSE {T.m}

\* the matrix that broadcasting pairs with channel c
SliceFor(T, c) == IF T.rank = 3 THEN T.m[c] ELSE T.m

\* the shape of a feature tensor (channel, node)
Shape(t) == <<Cardinality(DOMAIN t), Cardinality(UNION {DOMAIN t[c] : c \in DOMAIN t})>>

\* the assert of norm_adj, lines 170 and 225
RankOK(T) == T.rank = 3 \/ T.rank = 2

----------------------------------------------------------------------------
(* InformationPropagtionLayer *)

IPL_denominators_NoOffset(M) == Eval([i \in GNodes |-> RSum(N, M[i])])

\* lines 174, 178: 1. + torch.sum(A, dim) of one matrix
IPL_denominators(M) == Eval([i \in GNodes |-> RAdd(One, RSum(N, M[i]))])

\* lines 172-180 on one matrix: D_tilde_inv @ (A + eye)
IPL_norm_mat(M) ==
    MatMul(Diag(Inverses(IPL_denominators(M))), MatAdd(M, Eye))

\* InformationPropagtionLayer.norm_adj, for a tensor that passes the assert
IPL_norm_adj(T) ==
    IF T.rank = 3
    THEN [rank |-> 3, m |-> Eval([c \in DOMAIN T.m |-> IPL_norm_mat(T.m[c])])]
    ELSE [rank |-> 2, m |-> IPL_norm_mat(T.m)]

\* line 165
Blend(b, mem, h) ==
    Eval([c \in DOMAIN h |->
            Eval([n \in GNodes |-> RAdd(RMul(b, mem[c][n]), RMul(RSub(One, b), h[c][n]))])])

\* line 163: torch.matmul(A_i, x)
Propagate(A_i, lx) == Eval([c \in DOMAIN lx |-> MatVec(SliceFor(A_i, c), lx[c])])

IPL_forward_BlendX(lx, lh_in, A_inter, lbeta) ==
    LET A_i == IPL_norm_adj(A_inter)
        h == Propagate(A_i, lx)
    IN  [h |-> Blend(lbeta, lx, h),
         A_i |-> A_i,
         denoms |-> UNION {Range(IPL_denominators(M)) : M \in Slices(A_inter)}]

IPL_forward_NoNorm(lx, lh_in, A_inter, lbeta) ==
    LET A_i == A_inter
        h == Propagate(A_i, lx)
    IN  [h |-> Blend(lbeta, lh_in, h),
         A_i |-> A_i,
         denoms |-> {}]

\* InformationPropagtionLayer.forward, lines 151-165, for A_inter passing the assert.
\* h is the value returned; A_i and denoms record the matrix multiplied with x
\* and the values inverted on the way.
IPL_forward(lx, lh_in, A_inter, lbeta) ==
    LET A_i == IPL_norm_adj(A_inter)
        h == Propagate(A_i, lx)
    IN  [h |-> Blend(lbeta, lh_in, h),
         A_i |-> A_i,
         denoms |-> UNION {Range(IPL_denominators(M)) : M \in Slices(A_inter)}]

\* the default of the parameter beta, line 151
IPL_beta_default == <<1, 2>>

\* a direct call layer.forward(x, h_in, A, beta)
IPLCall ==
    /\ IF RankOK(A)
       THEN /\ ipl_pc' = "done"
            /\ ipl_out' = IPL_forward(x, h_in, A, beta).h
       ELSE /\ ipl_pc' = "error"
            /\ ipl_out' = <<>>
    /\ UNCHANGED <<adjVars, inVars, gcmVars>>

IplInit ==
    /\ A \in Tensors
    /\ x \in Features
    /\ h_in \in Features
    /\ beta \in BetaVals
    /\ k = 0 /\ conv = <<>>
    /\ AdjIdle /\ GcmIdle /\ IplIdle

IplNext == IPLCall

SpecIPL == IplInit /\ [][IplNext]_vars

----------------------------------------------------------------------------
(* GraphConvolutionModule *)

GCM_denominators_SelfLooped(M) ==
    Eval([i \in GNodes |-> RAdd(One, RSum(N, MatAdd(M, Eye)[i]))])

\* lines 229, 233: 1. + torch.sum(A, dim) of one matrix
GCM_denominators(M) == Eval([i \in GNodes |-> RAdd(One, RSum(N, M[i]))])

\* lines 227-235 on one matrix: D_tilde_inv @ (A + eye)
GCM_norm_mat(M) ==
    MatMul(Diag(Inverses(GCM_denominators(M))), MatAdd(M, Eye))

\* GraphConvolutionModule.norm_adj, for a tensor that passes the assert
GCM_norm_adj(T) ==
    IF T.rank = 3
    THEN [rank |-> 3, m |-> Eval([c \in DOMAIN T.m |-> GCM_norm_mat(T.m[c])])]
    ELSE [rank |-> 2, m |-> GCM_norm_mat(T.m)]

\* line 214: torch.bmm(A_tilde.permute(0, 2, 1), A), both of rank 3
Evolve(A_tilde, A_raw) ==
    [rank |-> 3,
     m |-> Eval([c \in DOMAIN A_tilde.m |-> MatMul(Transpose(A_tilde.m[c]), A_raw.m[c])])]

\* info_select{i}: a 1x1 convolution over the channels, weight and bias of hop i
InfoSelect(i, h) ==
    Eval([c \in DOMAIN h |->
            Eval([n \in GNodes |->
                    RAdd(RSum(Cardinality(DOMAIN h), [d \in DOMAIN h |-> RMul(conv.w[i], h[d][n])]),
                         conv.b[i])])])

TensorAdd(s, t) == Eval([c \in DOMAIN t |-> Eval([n \in GNodes |-> RAdd(s[c][n], t[c][n])])])

RECURSIVE Fuse(_, _)
\* lines 216-219: out = 0; out += info_select_i(hiddens[i]) for i = 0..i
Fuse(i, hs) ==
    IF i = 0 THEN InfoSelect(0, hs[1])
    ELSE TensorAdd(Fuse(i - 1, hs), InfoSelect(i, hs[i + 1]))

Last(s) == s[Len(s)]

\* the state of the call after line 209
Entered(A_tilde) ==
    [err |-> "none", hiddens |-> <<x>>, trans |-> <<A_tilde>>, used |-> <<>>,
     hop_beta |-> <<>>, hop_hin |-> <<>>,
     denoms |-> UNION {Range(GCM_denominators(M)) : M \in Slices(A)}]

HopMemoryPrevious(st) == Last(st.hiddens)

\* lines 211, 215: the second positional argument, h_in, of every gcl call is x
HopMemory(st) == x

\* lines 211, 215: hiddens.append(gcl(hiddens[-1], x, A_tilde[, beta = beta]))
Appended(st, A_tilde, b, r) ==
        [err |-> "none",
         hiddens |-> Append(st.hiddens, r.h),
         trans |-> IF Len(st.used) = 0 THEN st.trans ELSE Append(st.trans, A_tilde),
         used |-> Append(st.used, r.A_i),
         hop_beta |-> Append(st.hop_beta, b),
         hop_hin |-> Append(st.hop_hin, HopMemory(st)),
         denoms |-> st.denoms \cup r.denoms]

AfterHop(st, A_tilde, b) ==
    Appended(st, A_tilde, b, IPL_forward(Last(st.hiddens), HopMemory(st), A_tilde, b))

RECURSIVE Hops(_, _)
\* lines 212-215: the loop over i = 2..k, entered with i and the state so far
Hops(i, st) ==
    IF i > k THEN st
    ELSE IF Last(st.trans).rank # 3
         THEN \* permute(0, 2, 1) of a rank-2 tensor raises
              [st EXCEPT !.err = "RuntimeError"]
         ELSE Hops(i + 1, AfterHop(st, Evolve(Last(st.trans), A), beta))

\* lines 210-215, from the state after line 209
FromEntry(st0) ==
    IF k < 1
    THEN \* line 210: the module has no attribute gcl1
         [st0 EXCEPT !.err = "AttributeError"]
    ELSE Hops(2, AfterHop(st0, Last(st0.trans), IPL_beta_default))

\* GraphConvolutionModule.forward(x, A, beta), lines 206-220
GCM_forward ==
    IF ~RankOK(A)
    THEN [err |-> "AssertionError", hiddens |-> <<>>, trans |-> <<>>, used |-> <<>>,
          hop_beta |-> <<>>, hop_hin |-> <<>>, denoms |-> {}]
    ELSE FromEntry(Entered(GCM_norm_adj(A)))

Returned(st) ==
    /\ gcm_err' = st.err
    /\ hiddens' = st.hiddens
    /\ trans' = st.trans
    /\ used' = st.used
    /\ hop_beta' = st.hop_beta
    /\ hop_hin' = st.hop_hin
    /\ denoms' = st.denoms
    /\ IF st.err = "none"
       THEN /\ gcm_pc' = "done"
            /\ out' = Fuse(k, st.hiddens)
       ELSE /\ gcm_pc' = "error"
            /\ out' = <<>>
    /\ UNCHANGED <<adjVars, inVars, iplVars>>

GCMCall == \E st \in {GCM_forward} : Returned(st)

GcmInit ==
    /\ k \in 0..MaxK
    /\ conv \in ConvParams(k)
    /\ A \in Tensors
    /\ x \in Features
    /\ h_in = <<>>
    /\ beta \in BetaVals
    /\ AdjIdle /\ GcmIdle /\ IplIdle

GcmNext == GCMCall

SpecGCM == GcmInit /\ [][GcmNext]_vars

----------------------------------------------------------------------------
(* Properties of AdjConstructor, checked under SpecAdj *)

NonZeros(row) == {j \in DOMAIN row : row[j] # 0}

\* C1: every row of a returned adjacency has at most top_k nonzero entries,
\* in training mode (jittered selection) and in evaluation mode alike.
C1_RowSparsity ==
    adj_pc = "done" =>
        \A i \in Nodes : Cardinality(NonZeros(adj_out[i])) <= top_k

\* C1 witness: a training-mode call whose jitter kept a lower score over a higher
\* one, in a row that had more than top_k nonzero scores before masking.
C1_Witness ==
    /\ adj_pc = "done" /\ training /\ top_k >= 1
    /\ \E i \in Nodes :
        /\ Cardinality(NonZeros(adj_mat[i])) > top_k
        /\ Cardinality(NonZeros(adj_out[i])) = top_k
        /\ \E j, l \in Nodes :
            adj_out[i][j] > 0 /\ adj_out[i][l] = 0 /\ adj_mat[i][l] > adj_mat[i][j]

\* C10: a returned adjacency is strictly directed: of out[i][j] and out[j][i] at
\* most one is nonzero, and the diagonal is zero, whatever the mask selected.
C10_StrictlyDirected ==
    adj_pc = "done" =>
        \A i, j \in Nodes : adj_out[i][j] = 0 \/ adj_out[j][i] = 0

\* C10 witness: a call that returned an edge i -> j, with a mask that selects all
\* entries in one run and drops scored entries in another (top_k < n_nodes).
C10_Witness ==
    /\ adj_pc = "done" /\ top_k < n_nodes
    /\ \E i, j \in Nodes : i # j /\ adj_out[i][j] > 0 /\ adj_out[j][i] = 0
    /\ \E i, j \in Nodes : adj_mat[i][j] > 0 /\ adj_out[i][j] = 0

----------------------------------------------------------------------------
(* Reference statements of the normalization and of the transition matrices, *)
(* written entry by entry from the raw adjacency                             *)

\* (M + I)[i][j] / (1 + sum_m M[i][m])
NormalizeRef(M) ==
    [i \in GNodes |->
        [j \in GNodes |->
            RMul(RAdd(M[i][j], IF i = j THEN One ELSE Zero),
                 RInv(RAdd(One, RSum(N, M[i]))))]]

NormalizeRefT(T) ==
    IF T.rank = 3
    THEN [rank |-> 3, m |-> [c \in DOMAIN T.m |-> NormalizeRef(T.m[c])]]
    ELSE [rank |-> 2, m |-> NormalizeRef(T.m)]

RECURSIVE TransitionRef(_)
\* T_1 = normalize(A), T_i = transpose(T_{i-1}) @ A
TransitionRef(i) ==
    IF i = 1 THEN NormalizeRefT(A)
    ELSE [rank |-> 3,
          m |-> [c \in DOMAIN A.m |-> MatMul(Transpose(TransitionRef(i - 1).m[c]), A.m[c])]]

\* the hops the call ran
HopsRun == 1..Len(used)

----------------------------------------------------------------------------
(* Properties of GraphConvolutionModule, checked under SpecGCM *)

\* C2 (as claimed): a module constructed with k = 0 completes forward without an
\* error, runs no hop and returns info_select0(x).
C2_KZeroReturnsInputProjection ==
    (k = 0 /\ gcm_pc # "idle" /\ RankOK(A)) =>
        /\ gcm_err = "none"
        /\ Len(used) = 0
        /\ out = InfoSelect(0, x)

\* C3 (as claimed): the matrix that multiplies the hop state at hop i is T_i itself,
\* T_1 = normalize(A), T_i = transpose(T_{i-1}) @ A, with no further normalization.
C3_TransitionUsedDirectly ==
    \A i \in HopsRun : used[i] = TransitionRef(i)

\* C3 (amended): at every hop i the call runs, the matrix that multiplies the hop
\* state is normalize(T_i): T_1 = normalize(A), T_i = transpose(T_{i-1}) @ A, and
\* the layer applies the self-loop and degree normalization to T_i once more.
C3_TransitionRenormalized ==
    \A i \in HopsRun :
        /\ trans[i] = TransitionRef(i)
        /\ used[i] = NormalizeRefT(TransitionRef(i))
        /\ hiddens[i + 1] =
             Blend(hop_beta[i], hop_hin[i],
                   Propagate(NormalizeRefT(TransitionRef(i)), hiddens[i]))

\* C3 witness: a two-hop call on a rank-3 adjacency with an edge, where the matrix
\* multiplied at hop 2 differs from T_2.
C3_Witness ==
    /\ gcm_pc = "done" /\ k >= 2 /\ A.rank = 3
    /\ \E M \in Slices(A) : \E i, j \in GNodes : M[i][j] # Zero
    /\ used[2] # trans[2]
    /\ used[1] # trans[1]

\* C4 (as claimed): every hop 1..k, hop 1 included, blends with the beta handed to
\* forward.
C4_SameBetaEveryHop ==
    \A i \in HopsRun :
        hiddens[i + 1] = Blend(beta, hop_hin[i], Propagate(used[i], hiddens[i]))

\* C5 (as claimed): for an adjacency of rank 2 or 3 and k >= 1 the call runs all k
\* hops without an error and returns a tensor shaped like x; only a rank outside
\* {2, 3} is rejected.
C5_ValidRanksRunAllHops ==
    (gcm_pc # "idle" /\ k >= 1) =>
        IF RankOK(A)
        THEN /\ gcm_err = "none"
             /\ Len(used) = k
             /\ Shape(out) = Shape(x)
        ELSE gcm_err = "AssertionError"

\* the matrices norm_adj returned during the call: the module's (line 207) and the
\* layer's at every hop
Normalized ==
    (IF Len(trans) >= 1 THEN Slices(trans[1]) ELSE {})
    \cup UNION {Slices(used[i]) : i \in HopsRun}

\* C6: for a nonnegative square adjacency (rank 2, and each slice of rank 3) the row
\* sum of A + I equals the denominator 1 + sum_j A[i][j], and every row of every
\* normalized matrix sums to exactly 1 (in exact arithmetic).
C6_RowsSumToOne ==
    /\ \A M \in Normalized : \A i \in GNodes : RSum(N, M[i]) = One
    /\ gcm_pc # "idle" /\ RankOK(A) =>
         \A M \in Slices(A) : \A i \in GNodes :
             /\ RSum(N, MatAdd(M, Eye)[i]) = GCM_denominators(M)[i]
             /\ RSum(N, GCM_norm_mat(M)[i]) = One

\* C6 witness: a call that normalized a rank-3 adjacency with a node of degree 1
\* or more and a node of degree 0, and ran two hops.
C6_Witness ==
    /\ gcm_pc = "done" /\ k >= 2 /\ A.rank = 3
    /\ \E M \in Slices(A) : \E i, j \in GNodes :
        RSum(N, M[i]) # Zero /\ RSum(N, M[j]) = Zero
    /\ Cardinality(Normalized) >= 3

\* C7: on a nonnegative adjacency every normalization of the call, the first one
\* and the one inside each hop on the evolved matrix, inverts values 1 + degree
\* that are at least 1: no division by zero.
C7_DenominatorsAtLeastOne ==
    \A d \in denoms : RGeq(d, One)

\* C7 witness: a call of two hops or more on an adjacency with a node of out-degree
\* zero, whose evolved matrix has a row of degree zero as well.
C7_Witness ==
    /\ gcm_pc = "done" /\ k >= 2
    /\ \E M \in Slices(A) : \E i \in GNodes : RSum(N, M[i]) = Zero
    /\ \E M \in Slices(trans[2]) : \E i \in GNodes : RSum(N, M[i]) = Zero
    /\ \E d \in denoms : d # One

\* C9 (as claimed): at every hop the memory term h_in is the previous hop's state:
\* hiddens[i] = beta * hiddens[i-1] + (1 - beta) * (propagated hiddens[i-1]).
\* Stated for the calls with beta = 0.5, where the coefficient hop 1 is called with
\* is beta, so that what fails is the memory term alone.
C9_MemoryIsPreviousHop ==
    beta = IPL_beta_default =>
        \A i \in HopsRun :
            /\ hop_hin[i] = hiddens[i]
            /\ hiddens[i + 1] = Blend(beta, hiddens[i], Propagate(used[i], hiddens[i]))

\* C9 (amended): at every hop i the memory term h_in is the module's input x, which
\* is the previous hop's state at hop 1 only:
\* hiddens[i] = b_i * x + (1 - b_i) * (propagated hiddens[i-1]), b_i being the
\* coefficient the hop is called with (0.5 at hop 1, beta from hop 2 on).
C9_MemoryIsInput ==
    /\ gcm_pc = "done" => hiddens[1] = x /\ Len(hiddens) = k + 1
    /\ \A i \in HopsRun :
        /\ hop_hin[i] = x
        /\ hiddens[i + 1] =
             Blend(IF i = 1 THEN IPL_beta_default ELSE beta, x,
                   Propagate(used[i], hiddens[i]))

\* C9 witness: a call whose hop 2 started from a state other than x and whose
\* result differs from the blend with that previous state.
C9_Witness ==
    /\ gcm_pc = "done" /\ k >= 2
    /\ hiddens[2] # x
    /\ hop_hin[2] = x
    /\ hiddens[3] # Blend(beta, hiddens[2], Propagate(used[2], hiddens[2]))

----------------------------------------------------------------------------
(* Properties of InformationPropagtionLayer, checked under SpecIPL *)

\* C8: layer.forward(x, h_in, A, beta) returns h_in when beta = 1 and
\* normalize(A) @ x when beta = 0, for an adjacency of rank 2 or 3.
C8_BetaBoundary ==
    ipl_pc = "done" =>
        /\ beta = One => ipl_out = h_in
        /\ beta = Zero =>
             \A c \in DOMAIN x : ipl_out[c] = MatVec(NormalizeRef(SliceFor(A, c)), x[c])

\* C8 witness: a call with beta = 1 whose h_in differs from x and from the
\* propagated term, on an adjacency with an edge.
C8_Witness ==
    /\ ipl_pc = "done" /\ beta = One
    /\ h_in # x
    /\ Propagate(NormalizeRefT(A), x) # h_in
    /\ Propagate(NormalizeRefT(A), x) # x

============================================================================
